---------------------------- MODULE Spec2Model ----------------------------
(***************************************************************************)
(* WF Suite Release Proxy (src/app.py): a Flask service that lists the     *)
(* releases of a private repository and streams their .exe assets.         *)
(*                                                                         *)
(* Modelled state: the two rate-limiter windows (the requests_log closure  *)
(* of each rate_limit decorator), the single-slot release cache, the       *)
(* configured credential and the wall clock.  Each request handler is one  *)
(* action in the sequential specification Spec; SpecThreads runs the same  *)
(* handlers as threads that interleave between statements; SpecProjection  *)
(* runs get_releases over any raw list that upstream may answer.           *)
(***************************************************************************)
EXTENDS Integers, Sequences, FiniteSets, TLC

(***************************************************************************)
(* Program constants.                                                      *)
(***************************************************************************)
CACHE_DURATION_MINUTES == 5
WindowSeconds == 60
ListLimit == 30
DownloadLimit == 10

(***************************************************************************)
(* Python's None and a present value x.                                    *)
(***************************************************************************)
None == <<>>
Some(x) == <<x>>

(***************************************************************************)
(* Strings whose characters the program inspects are character sequences.  *)
(***************************************************************************)
ExeSuffix == <<".", "e", "x", "e">>
SetupExe == <<"s", ".", "e", "x", "e">>
ToolExe == <<"t", ".", "e", "x", "e">>
ReadmeTxt == <<"r", ".", "t", "x", "t">>
ToolZip == <<"t", ".", "z", "i", "p">>
UpperExe == <<"u", ".", "E", "X", "E">>
BareExe == <<"e", "x", "e">>

\* str.endswith
EndsWith(s, suffix) ==
    /\ Len(s) >= Len(suffix)
    /\ SubSeq(s, Len(s) - Len(suffix) + 1, Len(s)) = suffix

Range(f) == { f[x] : x \in DOMAIN f }

\* dict.get(key, default)
Get(d, key, default) == IF key \in DOMAIN d THEN d[key] ELSE default

\* key in dict
Has(d, key) == key \in DOMAIN d

(***************************************************************************)
(* rate_limit: prune the window, then reject when it is full, else record  *)
(* the call.  The result carries the new window.                           *)
(***************************************************************************)
InWindow(now_, req_time) == now_ - req_time < WindowSeconds

Prune(requests_log_, now_) ==
    SelectSeq(requests_log_, LAMBDA req_time : InWindow(now_, req_time))

WindowFullOffByOne(requests_log_, max_requests_per_minute) ==
    Len(requests_log_) > max_requests_per_minute

WindowFull(requests_log_, max_requests_per_minute) ==
    Len(requests_log_) >= max_requests_per_minute

rate_limit_recording_rejections(requests_log_, max_requests_per_minute, now_) ==
    LET pruned == Prune(requests_log_, now_)
    IN  [admit |-> ~WindowFull(pruned, max_requests_per_minute),
         log |-> Append(pruned, now_)]

rate_limit(requests_log_, max_requests_per_minute, now_) ==
    LET pruned == Prune(requests_log_, now_)
    IN  IF WindowFull(pruned, max_requests_per_minute)
        THEN [admit |-> FALSE, log |-> pruned]
        ELSE [admit |-> TRUE, log |-> Append(pruned, now_)]

(***************************************************************************)
(* is_cache_valid                                                          *)
(***************************************************************************)
is_cache_valid_seconds(cache_, now_) ==
    IF cache_.data = None \/ cache_.timestamp = None
    THEN FALSE
    ELSE now_ - cache_.timestamp[1] < CACHE_DURATION_MINUTES

is_cache_valid_inclusive(cache_, now_) ==
    IF cache_.data = None \/ cache_.timestamp = None
    THEN FALSE
    ELSE now_ - cache_.timestamp[1] <= CACHE_DURATION_MINUTES * 60

is_cache_valid(cache_, now_) ==
    IF cache_.data = None \/ cache_.timestamp = None
    THEN FALSE
    ELSE now_ - cache_.timestamp[1] < CACHE_DURATION_MINUTES * 60

(***************************************************************************)
(* The filter pass of get_releases.  A raw release or asset is a function  *)
(* from the keys upstream sent to their values; reading an absent key with *)
(* d[key] raises KeyError, which aborts the whole pass.                    *)
(***************************************************************************)
AssetOk(asset) ==
    /\ Has(asset, "name")
    /\ EndsWith(asset["name"], ExeSuffix) => Has(asset, "browser_download_url")

PublicAsset(asset) ==
    [name |-> asset["name"],
     browser_download_url |-> asset["browser_download_url"],
     size |-> Get(asset, "size", 0),
     created_at |-> Get(asset, "created_at", None)]

RECURSIVE FilterAssetsNewestFirst(_)
FilterAssetsNewestFirst(assets) ==
    IF assets = <<>> THEN [ok |-> TRUE, value |-> <<>>]
    ELSE LET asset == Head(assets)
             rest == FilterAssetsNewestFirst(Tail(assets))
         IN  IF ~AssetOk(asset) \/ ~rest.ok THEN [ok |-> FALSE, value |-> <<>>]
             ELSE IF EndsWith(asset["name"], ExeSuffix)
                  THEN [ok |-> TRUE, value |-> rest.value \o <<PublicAsset(asset)>>]
                  ELSE rest

RECURSIVE FilterAssets(_)
FilterAssets(assets) ==
    IF assets = <<>> THEN [ok |-> TRUE, value |-> <<>>]
    ELSE LET asset == Head(assets)
             rest == FilterAssets(Tail(assets))
         IN  IF ~AssetOk(asset) \/ ~rest.ok THEN [ok |-> FALSE, value |-> <<>>]
             ELSE IF EndsWith(asset["name"], ExeSuffix)
                  THEN [ok |-> TRUE, value |-> <<PublicAsset(asset)>> \o rest.value]
                  ELSE rest

PublicReleaseWithEmptyName(release, filtered_assets) ==
    [tag_name |-> release["tag_name"],
     name |-> Get(release, "name", ""),
     prerelease |-> Get(release, "prerelease", FALSE),
     body |-> Get(release, "body", ""),
     html_url |-> release["html_url"],
     published_at |-> Get(release, "published_at", None),
     assets |-> filtered_assets]

PublicRelease(release, filtered_assets) ==
    [tag_name |-> release["tag_name"],
     name |-> Get(release, "name", release["tag_name"]),
     prerelease |-> Get(release, "prerelease", FALSE),
     body |-> Get(release, "body", ""),
     html_url |-> release["html_url"],
     published_at |-> Get(release, "published_at", None),
     assets |-> filtered_assets]

RECURSIVE ProjectWithDrafts(_)
ProjectWithDrafts(all_releases) ==
    IF all_releases = <<>> THEN [ok |-> TRUE, value |-> <<>>]
    ELSE LET release == Head(all_releases)
             rest == ProjectWithDrafts(Tail(all_releases))
             filtered == FilterAssets(Get(release, "assets", <<>>))
         IN  IF ~filtered.ok THEN [ok |-> FALSE, value |-> <<>>]
             ELSE IF filtered.value = <<>> THEN rest
             ELSE IF ~(Has(release, "tag_name") /\ Has(release, "html_url"))
                  THEN [ok |-> FALSE, value |-> <<>>]
             ELSE IF ~rest.ok THEN rest
             ELSE [ok |-> TRUE,
                   value |-> <<PublicRelease(release, filtered.value)>>
                              \o rest.value]

RECURSIVE Project(_)
Project(all_releases) ==
    IF all_releases = <<>> THEN [ok |-> TRUE, value |-> <<>>]
    ELSE LET release == Head(all_releases)
             rest == Project(Tail(all_releases))
         IN  IF Get(release, "draft", FALSE) THEN rest
             ELSE LET filtered == FilterAssets(Get(release, "assets", <<>>))
                  IN  IF ~filtered.ok THEN [ok |-> FALSE, value |-> <<>>]
                      ELSE IF filtered.value = <<>> THEN rest
                      ELSE IF ~(Has(release, "tag_name") /\ Has(release, "html_url"))
                           THEN [ok |-> FALSE, value |-> <<>>]
                      ELSE IF ~rest.ok THEN rest
                      ELSE [ok |-> TRUE,
                            value |-> <<PublicRelease(release, filtered.value)>>
                                       \o rest.value]

(***************************************************************************)
(* The upstream repository host, as the proxy sees it.  Every upstream     *)
(* call either fails on the network (connection error, timeout), answers   *)
(* with an HTTP error status, or answers 200 with a JSON document.         *)
(***************************************************************************)
AssetSetup ==
    [name |-> SetupExe, browser_download_url |-> "dl/setup", size |-> 100, id |-> 7]
AssetReadme ==
    [name |-> ReadmeTxt, browser_download_url |-> "dl/readme", id |-> 8]
AssetTool ==
    [name |-> ToolExe, browser_download_url |-> "dl/tool", size |-> 0, id |-> 9]
AssetUpper ==
    [name |-> UpperExe, browser_download_url |-> "dl/upper", size |-> 7, id |-> 10]
AssetBare ==
    [name |-> BareExe, browser_download_url |-> "dl/bare", size |-> 3, id |-> 11]
AssetNoSize ==
    [name |-> ToolExe, browser_download_url |-> "dl/tool", id |-> 9]

ReleaseV1 ==
    [tag_name |-> "v1.0", html_url |-> "html/v1.0", draft |-> FALSE,
     assets |-> <<AssetSetup, AssetReadme>>]
ReleaseV2 ==
    [tag_name |-> "v2.0", name |-> "Two", html_url |-> "html/v2.0",
     prerelease |-> TRUE,
     assets |-> <<AssetReadme, AssetTool, AssetUpper, AssetSetup, AssetBare>>]
ReleaseDraft ==
    [tag_name |-> "v3.0", html_url |-> "html/v3.0", draft |-> TRUE,
     assets |-> <<AssetSetup>>]
ReleaseNoTag ==
    [html_url |-> "html/v4.0", draft |-> FALSE, assets |-> <<AssetSetup>>]
ReleaseV5 ==
    [tag_name |-> "v5.0", html_url |-> "html/v5.0", assets |-> <<AssetNoSize>>]

\* Raw objects that lack keys the filter pass reads.
AssetNameless == [browser_download_url |-> "dl/nameless", id |-> 12]
AssetNoLink == [name |-> SetupExe, size |-> 5, id |-> 13]
AssetDocNoLink == [name |-> ReadmeTxt]

ReleaseDocs ==
    [tag_name |-> "v6.0", html_url |-> "html/v6.0", assets |-> <<AssetReadme>>]
ReleaseEmpty == [tag_name |-> "v7.0"]
ReleaseNoUrl == [tag_name |-> "v8.0", assets |-> <<AssetTool>>]
ReleaseNamelessAsset ==
    [tag_name |-> "v9.0", html_url |-> "html/v9.0",
     assets |-> <<AssetSetup, AssetNameless>>]
ReleaseNoLink ==
    [tag_name |-> "v10.0", html_url |-> "html/v10.0", assets |-> <<AssetNoLink>>]
ReleaseDraftBroken == [draft |-> TRUE, assets |-> <<AssetNameless>>]
ReleaseDocNoLink ==
    [tag_name |-> "v11.0", html_url |-> "html/v11.0", body |-> "notes",
     assets |-> <<AssetDocNoLink, AssetTool>>]

\* The answers to GET .../releases that the model draws from.
UpstreamLists ==
    { <<ReleaseV1>>, <<ReleaseV2, ReleaseDraft, ReleaseV1>>, <<ReleaseDraft>>,
      <<ReleaseV1, ReleaseNoTag>> }

ListAnswers ==
    { [kind |-> "ok", json |-> l] : l \in UpstreamLists }
      \cup { [kind |-> "http_error", json |-> <<>>],
             [kind |-> "network_error", json |-> <<>>] }

\* Any raw list: up to MaxRawReleases releases, each of any shape above.
MaxRawReleases == 3
RawReleases ==
    { ReleaseV1, ReleaseV2, ReleaseDraft, ReleaseNoTag, ReleaseV5, ReleaseDocs,
      ReleaseEmpty, ReleaseNoUrl, ReleaseNamelessAsset, ReleaseNoLink,
      ReleaseDraftBroken, ReleaseDocNoLink }
RawLists == UNION { [1 .. n -> RawReleases] : n \in 0 .. MaxRawReleases }
RawAnswers == { [kind |-> "ok", json |-> l] : l \in RawLists }

\* The releases upstream has, by tag; any other tag is answered 404.
RepoTags == {"v1.0", "v5.0"}
RequestTags == RepoTags \cup {"v9.9"}
ReleaseByTag(tag_name) ==
    IF tag_name = "v1.0" THEN ReleaseV1 ELSE ReleaseV5

LookupAnswers(tag_name) ==
    { [kind |-> "network_error", code |-> 0, json |-> <<>>],
      [kind |-> "http", code |-> 500, json |-> <<>>] }
      \cup (IF tag_name \in RepoTags
            THEN { [kind |-> "http", code |-> 200, json |-> ReleaseByTag(tag_name)] }
            ELSE { [kind |-> "http", code |-> 404, json |-> <<>>] })

\* response.raise_for_status() raises for a 4xx or 5xx status.
RaisesForStatus(code) == code >= 400

\* The chunks of an asset stream that runs to its end.
CompleteChunks == 2

\* The asset-binary fetch made by generate(): the chunks that reach the client
\* before the stream ends or fails.
StreamAnswers ==
    { [kind |-> "complete", chunks |-> CompleteChunks],
      [kind |-> "open_failed", chunks |-> 0],
      [kind |-> "interrupted", chunks |-> 1] }

RequestNames == {SetupExe, ToolExe, ToolZip, UpperExe}

(***************************************************************************)
(* get_releases, the body behind the limiter.  The result is the response  *)
(* (status, body), the cache the handler leaves and what the handler did:  *)
(* upstream calls made, whether it read the cache, wrote it, and tested    *)
(* the credential.                                                         *)
(***************************************************************************)
ReleasesResult(status_, body_, cache_, upstream_, cache_write_, token_checked_) ==
    [status |-> status_, body |-> body_, cache |-> cache_, upstream |-> upstream_,
     cache_read |-> TRUE, cache_write |-> cache_write_,
     token_checked |-> token_checked_]

\* The cache hit: the cached payload as it is.
CacheHit(cache_) == ReleasesResult(200, cache_.data, cache_, 0, FALSE, FALSE)

\* `if not GITHUB_TOKEN`
ConfigurationError(cache_) == ReleasesResult(500, None, cache_, 0, FALSE, TRUE)

\* except requests.exceptions.RequestException
FetchFailedClearsCache(cache_) ==
    ReleasesResult(502, None, [data |-> None, timestamp |-> None], 1, FALSE, TRUE)

FetchFailedAfterRetry(cache_) == ReleasesResult(502, None, cache_, 2, FALSE, TRUE)

FetchFailed(cache_) == ReleasesResult(502, None, cache_, 1, FALSE, TRUE)

\* except Exception: a KeyError of the filter pass
UnexpectedError(cache_) == ReleasesResult(500, None, cache_, 1, FALSE, TRUE)

\* The cache is updated and the fresh payload returned.
Populated(public_releases, now_) ==
    ReleasesResult(200, Some(public_releases),
                   [data |-> Some(public_releases), timestamp |-> Some(now_)],
                   1, TRUE, TRUE)

get_releases_without_credential_test(cache_, token, now_, answer) ==
    IF is_cache_valid(cache_, now_) THEN CacheHit(cache_)
    ELSE IF answer.kind # "ok" THEN FetchFailed(cache_)
    ELSE LET public_releases == Project(answer.json)
         IN  IF ~public_releases.ok THEN UnexpectedError(cache_)
             ELSE Populated(public_releases.value, now_)

get_releases(cache_, token, now_, answer) ==
    IF is_cache_valid(cache_, now_) THEN CacheHit(cache_)
    ELSE IF ~token THEN ConfigurationError(cache_)
    ELSE IF answer.kind # "ok" THEN FetchFailed(cache_)
    ELSE LET public_releases == Project(answer.json)
         IN  IF ~public_releases.ok THEN UnexpectedError(cache_)
             ELSE Populated(public_releases.value, now_)

(***************************************************************************)
(* download_release_asset, the body behind the limiter.                    *)
(***************************************************************************)
\* The scan for the asset id: the id of the first asset with that name.
RECURSIVE FindAssetId(_, _)
FindAssetId(assets, asset_name) ==
    IF assets = <<>> THEN [ok |-> TRUE, asset_id |-> None]
    ELSE LET asset == Head(assets)
         IN  IF ~Has(asset, "name") THEN [ok |-> FALSE, asset_id |-> None]
             ELSE IF asset["name"] = asset_name
                  THEN IF Has(asset, "id")
                       THEN [ok |-> TRUE, asset_id |-> Some(asset["id"])]
                       ELSE [ok |-> FALSE, asset_id |-> None]
                  ELSE FindAssetId(Tail(assets), asset_name)

\* `if not asset_id`: None and 0 are both falsy.
NoAssetId(asset_id) == asset_id = None \/ asset_id = Some(0)

\* The size of the first asset with that name, for Content-Length.
RECURSIVE FindAssetSize(_, _)
FindAssetSize(assets, asset_name) ==
    IF assets = <<>> THEN [ok |-> TRUE, size |-> 0]
    ELSE LET asset == Head(assets)
         IN  IF ~Has(asset, "name") THEN [ok |-> FALSE, size |-> 0]
             ELSE IF asset["name"] = asset_name
                  THEN IF Has(asset, "size")
                       THEN [ok |-> TRUE, size |-> asset["size"]]
                       ELSE [ok |-> FALSE, size |-> 0]
                  ELSE FindAssetSize(Tail(assets), asset_name)

\* `if not asset_name.endswith('.exe')`
ValidAssetNameAnyExtension(asset_name) ==
    Len(asset_name) >= 4 /\ asset_name[Len(asset_name) - 3] = "."

ValidAssetName(asset_name) == EndsWith(asset_name, ExeSuffix)

DownloadResult(status_, upstream_, asset_fetch_, bytes_, length_, token_checked_) ==
    [status |-> status_, upstream |-> upstream_, asset_fetch |-> asset_fetch_,
     bytes |-> bytes_, content_length |-> length_, token_checked |-> token_checked_]

download_release_asset_without_lookup(token, asset_name, lookup, stream) ==
    IF ~token THEN DownloadResult(500, 0, 0, 0, None, TRUE)
    ELSE IF ~ValidAssetName(asset_name) THEN DownloadResult(400, 0, 0, 0, None, TRUE)
    ELSE DownloadResult(404, 0, 0, 0, None, TRUE)

download_release_asset(token, asset_name, lookup, stream) ==
    IF ~token THEN DownloadResult(500, 0, 0, 0, None, TRUE)
    ELSE IF ~ValidAssetName(asset_name) THEN DownloadResult(400, 0, 0, 0, None, TRUE)
    ELSE IF lookup.kind = "network_error" THEN DownloadResult(502, 1, 0, 0, None, TRUE)
    ELSE IF RaisesForStatus(lookup.code) THEN DownloadResult(502, 1, 0, 0, None, TRUE)
    ELSE LET assets == Get(lookup.json, "assets", <<>>)
             found == FindAssetId(assets, asset_name)
             size == FindAssetSize(assets, asset_name)
         IN  IF ~found.ok THEN DownloadResult(500, 1, 0, 0, None, TRUE)
             ELSE IF NoAssetId(found.asset_id) THEN DownloadResult(404, 1, 0, 0, None, TRUE)
             ELSE IF ~size.ok THEN DownloadResult(500, 1, 0, 0, None, TRUE)
             ELSE DownloadResult(200, 1, 1, stream.chunks,
                                 IF size.size > 0 THEN Some(size.size) ELSE None, TRUE)

(***************************************************************************)
(* The download requests of the model: a tag, an asset name, upstream's    *)
(* answer to the release lookup and the course of the asset stream.  Each  *)
(* case keeps the asset name asked for, what upstream answered (its status *)
(* code, -1 for a network error) and the handler's result.                 *)
(***************************************************************************)
DownloadCases ==
    [token \in BOOLEAN |->
       UNION { { LET handled == download_release_asset(token, asset_name, lookup, stream)
                 IN  [asset_name |-> asset_name,
                      lookup |-> IF handled.upstream = 0 THEN 0
                                 ELSE IF lookup.kind = "network_error" THEN -1
                                 ELSE lookup.code,
                      stream |-> IF handled.asset_fetch = 0 THEN "absent"
                                 ELSE stream.kind,
                      has_asset |-> /\ lookup.code = 200
                                    /\ \E a \in Range(Get(lookup.json, "assets", <<>>)) :
                                          Get(a, "name", None) = asset_name,
                      handled |-> handled] :
                 asset_name \in RequestNames, lookup \in LookupAnswers(tag_name),
                 stream \in StreamAnswers } :
               tag_name \in RequestTags }]

\* The 429 answer of the limiter, in the shape of each handler's result.
ReleasesRejected(cache_) ==
    [status |-> 429, body |-> None, cache |-> cache_, upstream |-> 0,
     cache_read |-> FALSE, cache_write |-> FALSE, token_checked |-> FALSE]

DownloadRejected == DownloadResult(429, 0, 0, 0, None, FALSE)

(***************************************************************************)
(* decorated_function: the limiter runs first; the handler's result counts *)
(* only when the call is admitted.                                         *)
(***************************************************************************)
decorated_function_handler_first(requests_log_, max_, now_, handled, rejected) ==
    LET limiter == rate_limit(requests_log_, max_, now_)
    IN  [log |-> limiter.log, admit |-> limiter.admit,
         result |-> IF limiter.admit THEN handled
                    ELSE [handled EXCEPT !.status = 429]]

decorated_function(requests_log_, max_, now_, handled, rejected) ==
    LET limiter == rate_limit(requests_log_, max_, now_)
    IN  [log |-> limiter.log, admit |-> limiter.admit,
         result |-> IF limiter.admit THEN handled ELSE rejected]

(***************************************************************************)
(* health_check: one upstream call, made with or without a credential.     *)
(***************************************************************************)
HealthAnswers ==
    { [kind |-> "http", code |-> 200], [kind |-> "http", code |-> 404],
      [kind |-> "network_error", code |-> 0] }

health_check(cache_, now_, answer) ==
    IF answer.kind = "network_error"
    THEN [status |-> 500, health |-> "unhealthy", github_api |-> "absent",
          cache_valid |-> None]
    ELSE [status |-> 200, health |-> "healthy",
          github_api |-> IF answer.code = 200 THEN "connected" ELSE "error",
          cache_valid |-> Some(is_cache_valid(cache_, now_))]

\* Upstream's answer to the list request as a status code, -1 when the call
\* failed on the network.
AnswerCode(answer) ==
    IF answer.kind = "ok" THEN 200
    ELSE IF answer.kind = "http_error" THEN 500 ELSE -1

(***************************************************************************)
(* Each application of rate_limit has a requests_log of its own: the       *)
(* decorator of one route replaces the window of that route only.          *)
(***************************************************************************)
SetWindowShared(logs, route, log) == [r \in DOMAIN logs |-> log]

SetWindow(logs, route, log) == [logs EXCEPT ![route] = log]

(***************************************************************************)
(* State.                                                                  *)
(*   now           the wall clock, in seconds                              *)
(*   GITHUB_TOKEN  whether the credential is configured (fixed at start)   *)
(*   requests_log  the window of each limiter, by route                    *)
(*   cache         the release cache                                       *)
(*   resp          the last response sent, with what its handler did       *)
(*   admitted      history: the admitted calls of each limiter that are    *)
(*                 less than 60 s old, kept apart from requests_log        *)
(*   rejected      history: rejections of each limiter since its last      *)
(*                 admission, counted up to MaxRejected                    *)
(*   last_put      history: the last successful population (payload, time) *)
(*   traffic       which routes the clients of this run call               *)
(*   calls         the calls made on protected routes, counted in runs     *)
(*                 with mixed traffic                                      *)
(*   thread        where each worker thread stands in its handler, and the *)
(*                 handler's local variables (SpecThreads)                 *)
(***************************************************************************)
VARIABLES now, GITHUB_TOKEN, requests_log, cache, resp, admitted, rejected,
          last_put, traffic, calls, thread

vars == <<now, GITHUB_TOKEN, requests_log, cache, resp, admitted, rejected,
          last_put, traffic, calls, thread>>

\* Rejections are counted up to this many.
MaxRejected == 2

(***************************************************************************)
(* Bounds of a run.  The clients of a run call one protected route any     *)
(* number of times, or both protected routes MaxMixedCalls times in all.   *)
(* The clock is observed at a few instants: for /download and mixed        *)
(* traffic they lie 1 s, 59 s and 60 s apart (the window's edge), for      *)
(* /releases 60 s, 299 s and 300 s apart (the window's and the cache's     *)
(* edge); a burst (SpecThreads) happens within one reading of the clock.   *)
(* In a run that exhausts the download limiter, /download is called any    *)
(* number of times within one reading of the clock and /releases           *)
(* MaxSideCalls times.                                                     *)
(***************************************************************************)
MaxMixedCalls == 4
MaxSideCalls == 1
ListingInstants == {0, 60, 300, 599}
DownloadInstants == {0, 1, 60}
BurstInstants == {0}
Instants ==
    CASE traffic = "listing" -> ListingInstants
      [] traffic \in {"burst", "exhaust"} -> BurstInstants
      [] OTHER -> DownloadInstants

\* Whether the clients of this run may call a protected route now.
MayCall(route) ==
    \/ traffic = (IF route = "releases" THEN "listing" ELSE "download")
    \/ traffic = "mixed" /\ calls < MaxMixedCalls
    \/ traffic = "exhaust" /\ (route = "download" \/ calls < MaxSideCalls)

Limit(route) == IF route = "releases" THEN ListLimit ELSE DownloadLimit

\* History: the calls admitted less than 60 s before instant t.
Recent(history, t) == SelectSeq(history, LAMBDA a : t - a < WindowSeconds)

\* History: whether a population less than 5 minutes old exists at t.
TtlOpen(put, t) == put # None /\ t - put[1].at < CACHE_DURATION_MINUTES * 60

\* The worker threads, and a thread that serves no request.
NumThreads == 2
Threads == 1 .. NumThreads
Idle ==
    [pc |-> "idle", route |-> "none", now |-> 0, kept |-> <<>>,
     public_releases |-> None]

NoResponse ==
    [route |-> "none", status |-> 0, body |-> None, upstream |-> 0,
     asset_fetch |-> 0, bytes |-> 0, content_length |-> None,
     cache_read |-> FALSE, cache_write |-> FALSE, token_checked |-> FALSE,
     asset_name |-> None, lookup |-> 0, has_asset |-> FALSE,
     stream |-> "absent", all_releases |-> None, health |-> "absent",
     github_api |-> "absent", cache_valid |-> None,
     prior |-> 0, rejected_before |-> 0, ttl_open |-> FALSE, put |-> None]

Init ==
    /\ now = 0
    /\ GITHUB_TOKEN \in BOOLEAN
    /\ requests_log = [releases |-> <<>>, download |-> <<>>]
    /\ cache = [data |-> None, timestamp |-> None]
    /\ resp = NoResponse
    /\ admitted = [releases |-> <<>>, download |-> <<>>]
    /\ rejected = [releases |-> 0, download |-> 0]
    /\ last_put = None
    /\ traffic \in {"listing", "download", "mixed", "exhaust"}
    /\ calls = 0
    /\ thread = [th \in Threads |-> Idle]

\* Time passes.
Tick ==
    /\ \E t \in Instants :
         /\ t > now
         /\ now' = t
         /\ admitted' = [r \in DOMAIN admitted |-> Recent(admitted[r], t)]
    /\ UNCHANGED <<GITHUB_TOKEN, requests_log, cache, resp, rejected, last_put,
                   traffic, calls, thread>>

\* What a call on a protected route leaves in the histories.
Histories(route, admit, populated) ==
    /\ admitted' = IF admit
                   THEN [admitted EXCEPT ![route] = Append(@, now)]
                   ELSE admitted
    /\ rejected' = [rejected EXCEPT ![route] =
                       IF admit THEN 0
                       ELSE IF @ < MaxRejected THEN @ + 1 ELSE @]
    /\ last_put' = IF populated # None
                   THEN Some([payload |-> populated[1], at |-> now])
                   ELSE last_put
    /\ calls' = IF \/ traffic = "mixed"
                   \/ traffic = "exhaust" /\ route = "releases"
                THEN calls + 1 ELSE calls

\* GET /releases, upstream answering with one of `answers`
GetReleasesWith(answers) ==
    /\ \E answer \in answers :
         LET call == decorated_function(requests_log.releases, ListLimit, now,
                         get_releases(cache, GITHUB_TOKEN, now, answer),
                         ReleasesRejected(cache))
             r == call.result
         IN  /\ requests_log' = SetWindow(requests_log, "releases", call.log)
             /\ cache' = r.cache
             /\ resp' = [NoResponse EXCEPT
                           !.route = "releases", !.status = r.status,
                           !.body = r.body, !.upstream = r.upstream,
                           !.cache_read = r.cache_read,
                           !.cache_write = r.cache_write,
                           !.token_checked = r.token_checked,
                           !.lookup = IF r.upstream = 0 THEN 0
                                      ELSE AnswerCode(answer),
                           !.all_releases =
                               IF r.upstream > 0 /\ answer.kind = "ok"
                               THEN Some(answer.json) ELSE None,
                           !.prior = Len(Recent(admitted.releases, now)),
                           !.rejected_before = rejected.releases,
                           !.ttl_open = TtlOpen(last_put, now),
                           !.put = IF last_put = None THEN None
                                   ELSE Some(last_put[1].payload)]
             /\ Histories("releases", call.admit,
                          IF r.cache_write THEN r.body ELSE None)
    /\ UNCHANGED <<now, GITHUB_TOKEN, traffic, thread>>

\* GET /releases
GetReleases == MayCall("releases") /\ GetReleasesWith(ListAnswers)

\* GET /releases/download/<tag_name>/<asset_name>
DownloadReleaseAsset ==
    /\ MayCall("download")
    /\ \E c \in DownloadCases[GITHUB_TOKEN] :
         LET call == decorated_function(requests_log.download, DownloadLimit, now,
                         c.handled, DownloadRejected)
             r == call.result
         IN  /\ requests_log' = SetWindow(requests_log, "download", call.log)
             /\ resp' = [NoResponse EXCEPT
                           !.route = "download", !.status = r.status,
                           !.upstream = r.upstream,
                           !.asset_fetch = r.asset_fetch,
                           !.bytes = r.bytes,
                           !.content_length = r.content_length,
                           !.token_checked = r.token_checked,
                           !.asset_name = Some(c.asset_name),
                           !.lookup = IF r.upstream = 0 THEN 0 ELSE c.lookup,
                           !.has_asset = r.upstream > 0 /\ c.has_asset,
                           !.stream = IF r.asset_fetch = 0 THEN "absent" ELSE c.stream,
                           !.prior = Len(Recent(admitted.download, now)),
                           !.rejected_before = rejected.download,
                           !.ttl_open = TtlOpen(last_put, now),
                           !.put = IF last_put = None THEN None
                                   ELSE Some(last_put[1].payload)]
             /\ Histories("download", call.admit, None)
    /\ UNCHANGED <<now, GITHUB_TOKEN, cache, traffic, thread>>

\* GET /health
HealthCheck ==
    /\ \E answer \in HealthAnswers :
         LET r == health_check(cache, now, answer)
         IN  resp' = [NoResponse EXCEPT
                        !.route = "health", !.status = r.status,
                        !.upstream = 1, !.cache_read = (r.cache_valid # None),
                        !.lookup = IF answer.kind = "network_error" THEN -1
                                   ELSE answer.code,
                        !.health = r.health, !.github_api = r.github_api,
                        !.cache_valid = r.cache_valid]
    /\ UNCHANGED <<now, GITHUB_TOKEN, requests_log, cache, admitted, rejected,
                   last_put, traffic, calls, thread>>

\* GET /
Home ==
    /\ resp' = [NoResponse EXCEPT !.route = "home", !.status = 200]
    /\ UNCHANGED <<now, GITHUB_TOKEN, requests_log, cache, admitted, rejected,
                   last_put, traffic, calls, thread>>

Next == Tick \/ GetReleases \/ DownloadReleaseAsset \/ HealthCheck \/ Home

Spec == Init /\ [][Next]_vars

(***************************************************************************)
(* The filter pass over any raw list.  The credential is configured and    *)
(* the clock stands still; upstream answers the first fetch with any raw   *)
(* list of RawLists and later fetches as in Spec, and /releases is called  *)
(* up to MaxProjectionCalls times, so that each payload is also served     *)
(* from the cache.                                                         *)
(***************************************************************************)
MaxProjectionCalls == 2

InitProjection ==
    /\ now = 0
    /\ GITHUB_TOKEN = TRUE
    /\ requests_log = [releases |-> <<>>, download |-> <<>>]
    /\ cache = [data |-> None, timestamp |-> None]
    /\ resp = NoResponse
    /\ admitted = [releases |-> <<>>, download |-> <<>>]
    /\ rejected = [releases |-> 0, download |-> 0]
    /\ last_put = None
    /\ traffic = "projection"
    /\ calls = 0
    /\ thread = [th \in Threads |-> Idle]

\* The first GET /releases
ListRaw ==
    /\ requests_log.releases = <<>>
    /\ GetReleasesWith(RawAnswers)

\* A later GET /releases
ListAgain ==
    /\ requests_log.releases # <<>>
    /\ Len(requests_log.releases) < MaxProjectionCalls
    /\ GetReleasesWith(ListAnswers)

NextProjection == ListRaw \/ ListAgain

SpecProjection == InitProjection /\ [][NextProjection]_vars

(***************************************************************************)
(* The threaded service.  The development server of app.run serves each    *)
(* request on a thread of its own, and nothing in the module locks the     *)
(* limiter windows or the cache, so a thread may be preempted between any  *)
(* two statements.  The steps below are the statements that read or write  *)
(* shared state.  A run serves either up to MaxThreadListings calls of     *)
(* /releases while time passes, or a burst of up to MaxThreadDownloads     *)
(* calls of /download that all read the same clock value.                  *)
(***************************************************************************)
MaxThreadListings == 3
MaxThreadDownloads == 11

InitThreads ==
    /\ now = 0
    /\ GITHUB_TOKEN \in BOOLEAN
    /\ requests_log = [releases |-> <<>>, download |-> <<>>]
    /\ cache = [data |-> None, timestamp |-> None]
    /\ resp = NoResponse
    /\ admitted = [releases |-> <<>>, download |-> <<>>]
    /\ rejected = [releases |-> 0, download |-> 0]
    /\ last_put = None
    /\ traffic \in {"listing", "burst"}
    /\ calls = 0
    /\ thread = [th \in Threads |-> Idle]

ThreadRoute == IF traffic = "listing" THEN "releases" ELSE "download"
ThreadCalls == IF traffic = "listing" THEN MaxThreadListings ELSE MaxThreadDownloads

\* A request arrives; line 50: now = time.time()
Start(th) ==
    /\ thread[th].pc = "idle"
    /\ calls < ThreadCalls
    /\ calls' = calls + 1
    /\ thread' = [thread EXCEPT ![th] =
                     [Idle EXCEPT !.pc = "scan", !.route = ThreadRoute, !.now = now]]
    /\ UNCHANGED <<now, GITHUB_TOKEN, requests_log, cache, resp, admitted,
                   rejected, last_put, traffic>>

\* line 52, right-hand side: the list of the calls less than 60 s old
Scan(th) ==
    /\ thread[th].pc = "scan"
    /\ thread' = [thread EXCEPT
                    ![th].kept = Prune(requests_log[thread[th].route], thread[th].now),
                    ![th].pc = "store"]
    /\ UNCHANGED <<now, GITHUB_TOKEN, requests_log, cache, resp, admitted,
                   rejected, last_put, traffic, calls>>

\* line 52, assignment: requests_log[:] = ...
Store(th) ==
    /\ thread[th].pc = "store"
    /\ requests_log' = [requests_log EXCEPT ![thread[th].route] = thread[th].kept]
    /\ thread' = [thread EXCEPT ![th].kept = <<>>, ![th].pc = "check"]
    /\ UNCHANGED <<now, GITHUB_TOKEN, cache, resp, admitted, rejected, last_put,
                   traffic, calls>>

\* lines 54-55: the window is full, 429
Reject(th) ==
    /\ thread[th].pc = "check"
    /\ WindowFull(requests_log[thread[th].route], Limit(thread[th].route))
    /\ resp' = [NoResponse EXCEPT !.route = thread[th].route, !.status = 429]
    /\ rejected' = [rejected EXCEPT ![thread[th].route] =
                       IF @ < MaxRejected THEN @ + 1 ELSE @]
    /\ thread' = [thread EXCEPT ![th] = Idle]
    /\ UNCHANGED <<now, GITHUB_TOKEN, requests_log, cache, admitted, last_put,
                   traffic, calls>>

\* line 54: the window is not full
Pass(th) ==
    /\ thread[th].pc = "check"
    /\ ~WindowFull(requests_log[thread[th].route], Limit(thread[th].route))
    /\ thread' = [thread EXCEPT ![th].pc = "append"]
    /\ UNCHANGED <<now, GITHUB_TOKEN, requests_log, cache, resp, admitted,
                   rejected, last_put, traffic, calls>>

\* line 57: requests_log.append(now); the call is admitted
Record(th) ==
    /\ thread[th].pc = "append"
    /\ requests_log' = [requests_log EXCEPT ![thread[th].route] =
                           Append(@, thread[th].now)]
    /\ admitted' = [admitted EXCEPT ![thread[th].route] = Append(@, thread[th].now)]
    /\ rejected' = [rejected EXCEPT ![thread[th].route] = 0]
    /\ thread' = [thread EXCEPT ![th].pc = "handler"]
    /\ UNCHANGED <<now, GITHUB_TOKEN, cache, resp, last_put, traffic, calls>>

\* download_release_asset: it shares no state with other requests
ServeDownload(th) ==
    /\ thread[th].pc = "handler" /\ thread[th].route = "download"
    /\ \E c \in DownloadCases[GITHUB_TOKEN] :
         resp' = [NoResponse EXCEPT
                    !.route = "download", !.status = c.handled.status,
                    !.upstream = c.handled.upstream,
                    !.asset_fetch = c.handled.asset_fetch,
                    !.bytes = c.handled.bytes,
                    !.token_checked = TRUE]
    /\ thread' = [thread EXCEPT ![th] = Idle]
    /\ UNCHANGED <<now, GITHUB_TOKEN, requests_log, cache, admitted, rejected,
                   last_put, traffic, calls>>

\* get_releases, lines 90-92: the cache is valid and its payload returned
ServeCached(th) ==
    /\ thread[th].pc = "handler" /\ thread[th].route = "releases"
    /\ is_cache_valid(cache, now)
    /\ resp' = [NoResponse EXCEPT
                  !.route = "releases", !.status = CacheHit(cache).status,
                  !.body = CacheHit(cache).body, !.cache_read = TRUE]
    /\ thread' = [thread EXCEPT ![th] = Idle]
    /\ UNCHANGED <<now, GITHUB_TOKEN, requests_log, cache, admitted, rejected,
                   last_put, traffic, calls>>

\* get_releases, lines 95-145: a miss; the credential is tested, upstream is
\* called and its answer filtered, all in the thread's own variables
Fetch(th) ==
    /\ thread[th].pc = "handler" /\ thread[th].route = "releases"
    /\ ~is_cache_valid(cache, now)
    /\ \E answer \in ListAnswers :
         LET r == get_releases([data |-> None, timestamp |-> None],
                               GITHUB_TOKEN, now, answer)
         IN  IF r.cache_write
             THEN /\ thread' = [thread EXCEPT ![th].public_releases = r.body,
                                              ![th].pc = "write_data"]
                  /\ UNCHANGED resp
             ELSE /\ thread' = [thread EXCEPT ![th] = Idle]
                  /\ resp' = [NoResponse EXCEPT
                                !.route = "releases", !.status = r.status,
                                !.upstream = r.upstream, !.cache_read = TRUE,
                                !.token_checked = TRUE]
    /\ UNCHANGED <<now, GITHUB_TOKEN, requests_log, cache, admitted, rejected,
                   last_put, traffic, calls>>

\* line 148: cache['data'] = public_releases
WriteData(th) ==
    /\ thread[th].pc = "write_data"
    /\ cache' = [cache EXCEPT !.data = thread[th].public_releases]
    /\ thread' = [thread EXCEPT ![th].pc = "write_timestamp"]
    /\ UNCHANGED <<now, GITHUB_TOKEN, requests_log, resp, admitted, rejected,
                   last_put, traffic, calls>>

\* lines 149-152: cache['timestamp'] = datetime.now(), and the response
WriteTimestamp(th) ==
    /\ thread[th].pc = "write_timestamp"
    /\ cache' = [cache EXCEPT !.timestamp = Some(now)]
    /\ resp' = [NoResponse EXCEPT
                  !.route = "releases", !.status = 200,
                  !.body = thread[th].public_releases, !.upstream = 1,
                  !.cache_read = TRUE, !.cache_write = TRUE,
                  !.token_checked = TRUE]
    /\ last_put' = Some([payload |-> thread[th].public_releases[1], at |-> now])
    /\ thread' = [thread EXCEPT ![th] = Idle]
    /\ UNCHANGED <<now, GITHUB_TOKEN, requests_log, admitted, rejected, traffic,
                   calls>>

NextThreads ==
    \/ Tick
    \/ \E th \in Threads :
         \/ Start(th) \/ Scan(th) \/ Store(th) \/ Reject(th) \/ Pass(th)
         \/ Record(th) \/ ServeDownload(th) \/ ServeCached(th) \/ Fetch(th)
         \/ WriteData(th) \/ WriteTimestamp(th)

SpecThreads == InitThreads /\ [][NextThreads]_vars

(***************************************************************************)
(* Properties of the sequential service (Spec).                            *)
(***************************************************************************)
Protected(r) == r.route \in {"releases", "download"}
Admitted(r) == Protected(r) /\ r.status # 429

\* C1: when N calls of a limiter (30 for /releases, 10 for /download) were
\* admitted less than 60 s before a call, the call is rejected with 429; so a
\* window of 60 s never holds more than N admitted calls.
C1_FullWindowRejects ==
    /\ Protected(resp) /\ resp.prior >= Limit(resp.route) => resp.status = 429
    /\ \A route \in DOMAIN admitted :
         Len(Recent(admitted[route], now)) <= Limit(route)

\* C1 witness: the 11th download call is rejected while the 10 admitted calls
\* of its window were made at two different instants.
C1_Witness ==
    /\ resp.route = "download" /\ resp.status = 429
    /\ resp.prior = DownloadLimit
    /\ Len(admitted.download) = DownloadLimit
    /\ admitted.download[1] # admitted.download[DownloadLimit]

\* C2: a call is admitted whenever fewer than N admitted calls lie less than
\* 60 s before it, so a full window admits again as soon as its oldest call is
\* 60 s old, however many calls were rejected meanwhile.
C2_WindowRecovers ==
    Protected(resp) /\ resp.prior < Limit(resp.route) => resp.status # 429

\* C2 witness: a download call is admitted after rejections, when the older
\* calls of a full window have turned 60 s old and the newer ones have not.
C2_Witness ==
    /\ resp.route = "download" /\ resp.status # 429
    /\ resp.rejected_before = MaxRejected
    /\ resp.prior > 0
    /\ now = 60

\* C3: a call that finds its window full is answered 429 and its handler does
\* nothing: no upstream call, no asset fetch, no cache read or write, no test
\* of the credential.
C3_RejectedDoesNothing ==
    /\ Protected(resp) /\ resp.prior >= Limit(resp.route) => resp.status = 429
    /\ resp.status = 429 =>
         /\ resp.upstream = 0 /\ resp.asset_fetch = 0 /\ resp.bytes = 0
         /\ ~resp.cache_read /\ ~resp.cache_write /\ ~resp.token_checked

\* C3 witness: the 31st /releases call of a window, rejected while the
\* credential is configured and the cache is valid.
C3_Witness ==
    /\ resp.route = "releases" /\ resp.status = 429
    /\ resp.prior = ListLimit
    /\ GITHUB_TOKEN /\ is_cache_valid(cache, now)

\* C4: an admitted /releases call made less than 5 minutes after the last
\* successful population returns the populated payload with status 200 and
\* makes no upstream call.
C4_CacheIdempotent ==
    resp.route = "releases" /\ Admitted(resp) /\ resp.ttl_open =>
        /\ resp.status = 200
        /\ resp.body = resp.put
        /\ resp.upstream = 0
        /\ ~resp.cache_write

\* C4 witness: a call served from the cache 299 s after the population.
C4_Witness ==
    /\ resp.route = "releases" /\ resp.status = 200 /\ resp.upstream = 0
    /\ resp.ttl_open
    /\ last_put # None /\ now - last_put[1].at = 299

\* C5, as claimed: an admitted /releases call made when no population is less
\* than 5 minutes old makes a fresh upstream fetch.
C5_MissAlwaysFetches ==
    resp.route = "releases" /\ Admitted(resp) /\ ~resp.ttl_open =>
        resp.upstream = 1

\* C5, amended: the cache is valid iff a population less than 5 minutes old
\* exists; an admitted /releases call made when none exists never serves the
\* old payload: it makes a fresh upstream fetch when the credential is
\* configured and answers 500 without an upstream call when it is not.
C5_MissFetchesWithCredential ==
    /\ is_cache_valid(cache, now) <=> TtlOpen(last_put, now)
    /\ resp.route = "releases" /\ Admitted(resp) /\ ~resp.ttl_open =>
         /\ resp.cache_read
         /\ IF GITHUB_TOKEN
            THEN resp.upstream = 1 /\ resp.status \in {200, 500, 502}
            ELSE resp.upstream = 0 /\ resp.status = 500
         /\ resp.status = 200 => resp.cache_write

\* C5 witness: a call made exactly 300 s after the population fetches again
\* (and the fetch fails, so the old population is still the last one).
C5_Witness ==
    /\ resp.route = "releases" /\ resp.status = 502 /\ resp.upstream = 1
    /\ ~resp.ttl_open /\ resp.put # None
    /\ last_put # None /\ now - last_put[1].at = 300

\* C8: a step changes the cache only if it is a /releases call that was
\* admitted, found the cache invalid, made its upstream call and answered 200
\* with the payload it stored; a call answered 429, 500 or 502, a download,
\* /health, / and the passing of time leave the cache as it was.
C8_CacheWrittenOnlyByFetch ==
    [][cache' # cache =>
         /\ resp'.route = "releases" /\ resp'.status = 200
         /\ resp'.upstream = 1 /\ resp'.cache_write
         /\ ~is_cache_valid(cache, now)
         /\ cache' = [data |-> resp'.body, timestamp |-> Some(now)]]_vars

\* C8 witness: a /releases call whose upstream fetch failed has left the
\* earlier population in the cache.
C8_Witness ==
    /\ resp.route = "releases" /\ resp.status = 502
    /\ last_put # None
    /\ cache = [data |-> Some(last_put[1].payload),
                timestamp |-> Some(last_put[1].at)]

NonExeAsked(r) ==
    r.route = "download" /\ Admitted(r) /\ ~EndsWith(r.asset_name[1], ExeSuffix)

\* C9, as claimed: an admitted download call for a name that does not end with
\* .exe is answered 400 and makes no upstream call.
C9_NonExeIs400 ==
    NonExeAsked(resp) =>
        resp.status = 400 /\ resp.upstream = 0 /\ resp.asset_fetch = 0

\* C9, amended: an admitted download call for a name that does not end with
\* .exe makes no upstream call; it is answered 400 when the credential is
\* configured and 500 when it is not (the credential is tested first).
C9_NonExeNoUpstream ==
    NonExeAsked(resp) =>
        /\ resp.upstream = 0 /\ resp.asset_fetch = 0 /\ resp.bytes = 0
        /\ resp.status = IF GITHUB_TOKEN THEN 400 ELSE 500

\* C9 witness: t.zip is asked for and answered 400.
C9_Witness ==
    /\ resp.route = "download" /\ resp.status = 400
    /\ resp.asset_name = Some(ToolZip)
    /\ resp.upstream = 0

\* C10, as claimed: an admitted download call for a .exe name is answered 404,
\* with no byte streamed and no asset fetch, when upstream has the release but
\* no asset of that name in it, and when upstream answers 404 for the tag.
C10_UnresolvedIs404 ==
    /\ resp.route = "download" /\ Admitted(resp)
    /\ EndsWith(resp.asset_name[1], ExeSuffix)
    /\ \/ resp.lookup = 404
       \/ resp.lookup = 200 /\ ~resp.has_asset
    => resp.status = 404 /\ resp.bytes = 0 /\ resp.asset_fetch = 0

ExeAsked(r) ==
    r.route = "download" /\ Admitted(r) /\ EndsWith(r.asset_name[1], ExeSuffix)

\* The release lookup failed: a network error or timeout, or a status that is
\* not 2xx and not 404.
LookupFailed(r) == r.lookup = -1 \/ (r.lookup >= 300 /\ r.lookup # 404)

\* The asset-binary fetch failed before any byte was forwarded.
AssetFetchFailedAtOpen(r) == r.stream = "open_failed" /\ r.bytes = 0

\* C11, as claimed: an admitted download call for a .exe name is answered 502
\* when its release lookup fails and when its asset-binary fetch fails before
\* any byte was forwarded.
C11_UpstreamFailureIs502 ==
    ExeAsked(resp) /\ (LookupFailed(resp) \/ AssetFetchFailedAtOpen(resp)) =>
        resp.status = 502

\* The half of C11 that the handler keeps: a failed release lookup is
\* answered 502 and no asset fetch is made.
LookupFailureIs502 ==
    ExeAsked(resp) /\ LookupFailed(resp) =>
        resp.status = 502 /\ resp.asset_fetch = 0 /\ resp.bytes = 0

\* The cache holds the payload and the time of one population: the last one
\* that completed.
FromLastPopulation ==
    /\ last_put # None
    /\ cache = [data |-> Some(last_put[1].payload),
                timestamp |-> Some(last_put[1].at)]

\* C14: while the credential is absent the cache stays empty, and every
\* admitted /releases call and every admitted download call is answered 500
\* without an upstream call, an asset fetch or a payload.
C14_NoCredentialIs500 ==
    ~GITHUB_TOKEN =>
        /\ cache = [data |-> None, timestamp |-> None]
        /\ Admitted(resp) =>
              /\ resp.status = 500 /\ resp.body = None
              /\ resp.upstream = 0 /\ resp.asset_fetch = 0 /\ resp.bytes = 0

\* C14 witness: without a credential, a /releases call made after earlier
\* admitted calls, late in the run, is answered 500.
C14_Witness ==
    /\ ~GITHUB_TOKEN
    /\ resp.route = "releases" /\ resp.status = 500 /\ resp.upstream = 0
    /\ resp.token_checked /\ resp.cache_read
    /\ now >= CACHE_DURATION_MINUTES * 60 /\ resp.prior > 0

\* C17: a download call leaves the cache as it was and neither reads nor
\* writes it, and every admitted download call for a .exe name with the
\* credential configured makes a release lookup of its own, whether the cache
\* is valid or not.
C17_DownloadBypassesCache ==
    [][resp'.route = "download" =>
         /\ cache' = cache
         /\ ~resp'.cache_read /\ ~resp'.cache_write
         /\ ExeAsked(resp') /\ GITHUB_TOKEN =>
               resp'.upstream = 1 /\ resp'.lookup # 0]_vars

\* C17 witness: a download call made while the cache is valid has looked the
\* release up and has left the cache valid.
C17_Witness ==
    /\ ExeAsked(resp) /\ GITHUB_TOKEN
    /\ resp.upstream = 1 /\ resp.lookup = 200 /\ resp.status = 200
    /\ resp.ttl_open /\ is_cache_valid(cache, now)
    /\ FromLastPopulation

\* C18: a request makes at most one list fetch or release lookup and at most
\* one asset fetch.  When the list fetch fails, /releases answers 502; when
\* the release lookup fails (404 included), the download is answered with an
\* error and no asset fetch is made; when the asset fetch fails, it is not
\* made again and the client is left with the bytes that had arrived.
C18_NoRetries ==
    /\ resp.upstream <= 1 /\ resp.asset_fetch <= 1
    /\ resp.route = "releases" /\ resp.upstream = 1 /\ resp.lookup # 200 =>
          resp.status = 502 /\ resp.body = None
    /\ resp.route = "download" /\ resp.upstream = 1 /\ resp.lookup # 200 =>
          resp.status >= 400 /\ resp.asset_fetch = 0 /\ resp.bytes = 0
    /\ resp.route = "download" /\ resp.stream \in {"open_failed", "interrupted"} =>
          resp.asset_fetch = 1 /\ resp.bytes < CompleteChunks

\* C18 witness: the asset stream of a download broke after its first chunk;
\* one lookup and one asset fetch were made and one chunk was forwarded.
C18_Witness ==
    /\ resp.route = "download" /\ resp.stream = "interrupted"
    /\ resp.upstream = 1 /\ resp.asset_fetch = 1 /\ resp.bytes = 1

\* C19: only a /releases call changes the listing window and only a download
\* call changes the download window (so /health, / and the passing of time
\* change neither), and a call is rejected only when the window of its own
\* route is full.
C19_LimitersIndependent ==
    [][/\ requests_log'.releases # requests_log.releases =>
            resp'.route = "releases"
       /\ requests_log'.download # requests_log.download =>
            resp'.route = "download"
       /\ now' = now /\ Protected(resp') /\ resp'.status = 429 =>
            WindowFull(Prune(requests_log[resp'.route], now),
                       Limit(resp'.route))]_vars

\* C19 witness: the download limiter is exhausted and has rejected calls; a
\* /releases call made then is admitted and is the only entry of the listing
\* window, and the download window still holds its 10 calls.
C19_Witness ==
    /\ resp.route = "releases" /\ resp.status # 429
    /\ requests_log.releases = <<now>>
    /\ Len(Prune(requests_log.download, now)) = DownloadLimit
    /\ rejected.download > 0

\* C13, as claimed: whatever upstream does (200, another status, a network
\* error or timeout), /health answers 200 with a healthy report that holds
\* github_api (connected exactly when upstream answered 200, error otherwise)
\* and cache_valid.
C13_HealthNeverFails ==
    resp.route = "health" =>
        /\ resp.status = 200 /\ resp.health = "healthy"
        /\ resp.github_api = (IF resp.lookup = 200 THEN "connected" ELSE "error")
        /\ resp.cache_valid # None

\* The part of C13 that the handler keeps: when upstream answers with any
\* status, the report is healthy and says connected exactly for 200.
HealthReportOnAnswer ==
    resp.route = "health" /\ resp.lookup # -1 =>
        /\ resp.status = 200 /\ resp.health = "healthy"
        /\ resp.github_api = (IF resp.lookup = 200 THEN "connected" ELSE "error")
        /\ resp.cache_valid \in {Some(TRUE), Some(FALSE)}

(***************************************************************************)
(* Properties of the filter pass (SpecProjection).                         *)
(***************************************************************************)
\* A /releases call that fetched: upstream answered 200 with a raw list.
Fetched(r) == r.route = "releases" /\ r.all_releases # None

\* The asset's name ends with .exe (an asset without a name has none).
ExeNamed(asset) == EndsWith(Get(asset, "name", <<>>), ExeSuffix)

\* The release is not a draft and has an asset whose name ends with .exe.
Visible(release) ==
    /\ ~Get(release, "draft", FALSE)
    /\ \E asset \in Range(Get(release, "assets", <<>>)) : ExeNamed(asset)

\* Every key that the pass reads without a default is present.
WellFormed(all_releases) ==
    \A release \in Range(all_releases) :
       /\ Has(release, "tag_name") /\ Has(release, "html_url")
       /\ \A asset \in Range(Get(release, "assets", <<>>)) :
             Has(asset, "name") /\ Has(asset, "browser_download_url")

\* payload is the visible releases of all_releases in their order, each with
\* its .exe assets in their order.
IsProjectionOf(payload, all_releases) ==
    LET kept == SelectSeq(all_releases, Visible)
    IN  /\ Len(payload) = Len(kept)
        /\ \A i \in DOMAIN kept :
              LET exes == SelectSeq(kept[i]["assets"], ExeNamed)
                  shown == payload[i].assets
              IN  /\ payload[i].tag_name = kept[i]["tag_name"]
                  /\ payload[i].html_url = kept[i]["html_url"]
                  /\ Len(shown) = Len(exes)
                  /\ \A j \in DOMAIN exes :
                        /\ shown[j].name = exes[j]["name"]
                        /\ shown[j].browser_download_url =
                              exes[j]["browser_download_url"]

\* C12: for every raw list in which the keys read without a default are
\* present, /releases answers 200, and every payload it answers is the
\* subsequence, in input order, of the releases that are not drafts and have
\* an asset named *.exe (exact, case-sensitive suffix), each with exactly its
\* .exe assets in input order.
C12_ProjectionResult ==
    Fetched(resp) =>
        /\ WellFormed(resp.all_releases[1]) => resp.status = 200
        /\ resp.status = 200 =>
              /\ resp.body # None
              /\ IsProjectionOf(resp.body[1], resp.all_releases[1])

\* C12 witness: a draft lies between two visible releases; the first has five
\* assets of which the second and the fourth end with .exe (u.EXE and "exe"
\* do not).
C12_Witness ==
    /\ resp.all_releases = Some(<<ReleaseV2, ReleaseDraft, ReleaseV1>>)
    /\ resp.status = 200
    /\ Len(resp.body[1]) = 2
    /\ resp.body[1][1].tag_name = "v2.0" /\ resp.body[1][2].tag_name = "v1.0"
    /\ Len(resp.body[1][1].assets) = 2
    /\ resp.body[1][1].assets[1].name = ToolExe
    /\ resp.body[1][1].assets[2].name = SetupExe

\* Every release has tag_name and html_url.
HasRequiredFields(all_releases) ==
    \A release \in Range(all_releases) :
       Has(release, "tag_name") /\ Has(release, "html_url")

\* The optional fields of the payload carry upstream's value, or the default
\* where upstream sent none.
DefaultsApplied(payload, all_releases) ==
    LET kept == SelectSeq(all_releases, Visible)
    IN  /\ Len(payload) = Len(kept)
        /\ \A i \in DOMAIN kept :
              /\ payload[i].name = (IF Has(kept[i], "name") THEN kept[i]["name"]
                                    ELSE kept[i]["tag_name"])
              /\ payload[i].prerelease = (IF Has(kept[i], "prerelease")
                                          THEN kept[i]["prerelease"] ELSE FALSE)
              /\ payload[i].body = (IF Has(kept[i], "body") THEN kept[i]["body"]
                                    ELSE "")

\* C16, as claimed: the pass fails, with 500, only when a release lacks
\* tag_name or html_url; when every release has both it succeeds, whatever
\* else releases or assets lack, and name, prerelease and body get their
\* defaults.
C16_FailsOnlyOnRequiredFields ==
    Fetched(resp) =>
        /\ resp.status # 200 =>
              resp.status = 500 /\ ~HasRequiredFields(resp.all_releases[1])
        /\ HasRequiredFields(resp.all_releases[1]) =>
              /\ resp.status = 200
              /\ DefaultsApplied(resp.body[1], resp.all_releases[1])

\* The pass reads a key that upstream did not send: a release that is not a
\* draft has an asset without name, or a .exe asset without
\* browser_download_url, or has a .exe asset and lacks tag_name or html_url.
ReadsAbsentKey(all_releases) ==
    \E release \in Range(all_releases) :
       /\ ~Get(release, "draft", FALSE)
       /\ \/ \E asset \in Range(Get(release, "assets", <<>>)) :
               \/ ~Has(asset, "name")
               \/ ExeNamed(asset) /\ ~Has(asset, "browser_download_url")
          \/ /\ Visible(release)
             /\ ~(Has(release, "tag_name") /\ Has(release, "html_url"))

\* C16, amended: the pass fails exactly when it reads an absent key, which
\* besides tag_name and html_url of a visible release may be the name of an
\* asset or the browser_download_url of a .exe asset; the failure is answered
\* 500 and leaves the cache alone.  Drafts and releases without .exe assets
\* never make it fail.  When it succeeds, name defaults to tag_name,
\* prerelease to false and body to the empty string.
C16_FailsOnAbsentKey ==
    Fetched(resp) =>
        /\ resp.status \in {200, 500}
        /\ resp.status = 500 <=> ReadsAbsentKey(resp.all_releases[1])
        /\ resp.status = 500 => resp.body = None /\ ~resp.cache_write
        /\ resp.status = 200 =>
              DefaultsApplied(resp.body[1], resp.all_releases[1])

\* C16 witness: every release has tag_name and html_url, one asset has no
\* name, and the call is answered 500 with the cache left empty.
C16_Witness ==
    /\ resp.all_releases = Some(<<ReleaseV1, ReleaseNamelessAsset>>)
    /\ HasRequiredFields(resp.all_releases[1])
    /\ resp.status = 500
    /\ cache.data = None

\* The tags of upstream's drafts (every release upstream has a tag of its
\* own, so the tag tells whether a release of a payload was a draft).
DraftTags ==
    { release["tag_name"] :
        release \in { x \in RawReleases :
                         Get(x, "draft", FALSE) /\ Has(x, "tag_name") } }

\* No draft, no release without assets, no asset that is not named *.exe.
PublicSafe(payload) ==
    \A i \in DOMAIN payload :
       /\ payload[i].tag_name \notin DraftTags
       /\ payload[i].assets # <<>>
       /\ \A asset \in Range(payload[i].assets) : EndsWith(asset.name, ExeSuffix)

\* C20: the cached payload, when there is one, is public-safe, and so is the
\* body of every 200 answer of /releases, fresh or served from the cache.
C20_CachedPayloadPublicSafe ==
    /\ cache.data # None => PublicSafe(cache.data[1])
    /\ resp.route = "releases" /\ resp.status = 200 =>
          resp.body # None /\ PublicSafe(resp.body[1])

\* C20 witness: a payload built from a list with a draft between two visible
\* releases is served from the cache by the next call.
C20_Witness ==
    /\ resp.route = "releases" /\ resp.status = 200 /\ resp.upstream = 0
    /\ resp.body = cache.data
    /\ \E answer \in RawAnswers :
          /\ answer.json = <<ReleaseV2, ReleaseDraft, ReleaseV1>>
          /\ cache.data = Populated(Project(answer.json).value, now).body

(***************************************************************************)
(* Properties of the threaded service (SpecThreads).                       *)
(***************************************************************************)
\* C6, as claimed: in every state, also between the statements of a
\* /releases handler that populates the cache while other threads run, the
\* cache's payload and its timestamp are both present or both absent.
C6_CachePairBothOrNeither ==
    (cache.data = None) <=> (cache.timestamp = None)

Count(seq, v) == Cardinality({ i \in DOMAIN seq : seq[i] = v })

\* Every admitted call less than 60 s old is still in its limiter's window.
NoAdmissionLost ==
    \A route \in DOMAIN admitted :
       LET recent == Recent(admitted[route], now)
       IN  \A v \in Range(recent) :
              Count(recent, v) <= Count(requests_log[route], v)

\* No 60 s window holds more admitted calls than the limiter's threshold.
NoWindowOverfull ==
    \A route \in DOMAIN admitted :
       Len(Recent(admitted[route], now)) <= Limit(route)

\* C7, as claimed: whatever the interleaving of the handlers on one limiter,
\* no admitted timestamp is lost from its window and no 60 s window holds
\* more than N admitted calls.
C7_LimiterMutuallyExclusive == NoAdmissionLost /\ NoWindowOverfull
\* C15, as claimed: in every state in which the cache holds a payload and a
\* timestamp, both were written by the same population, also when two threads
\* that both missed populate it one after the other.
C15_CacheReplacedWholesale ==
    cache.data # None /\ cache.timestamp # None => FromLastPopulation

\* The same in the states in which no handler is running.
CacheWholeWhenQuiet ==
    /\ \A th \in Threads : thread[th].pc = "idle"
    /\ cache.data # None /\ cache.timestamp # None
    => FromLastPopulation
=============================================================================
